---- MODULE Spec2Model ----
(***************************************************************************)
(* The resilient API client of support/hooks.js (class ApiClient): the     *)
(* sliding-window rate limiter (handleRateLimit), the axios interceptors   *)
(* with the retry logic (shouldRetry, retryRequest), the verb wrappers     *)
(* (get/post/...) with response validation and error wrapping, the session *)
(* operations (login, logout, setAuthToken), uploadFile, downloadFile and  *)
(* batchRequests; and the retry loop of ReRunner.rerunWithRetry.           *)
(*                                                                         *)
(* Time is the value of Date.now() in milliseconds.  A timer set with      *)
(* setTimeout(d) at time t fires at time t + d: the clock never passes a   *)
(* pending deadline, which is the schedule most favourable to the code.    *)
(* Events that fall in the same millisecond happen in any order.           *)
(*                                                                         *)
(* axios is taken to keep the custom fields of a request config (_retry,   *)
(* _retryCount) when the config is handed back to this.client(config), as  *)
(* every axios release but 0.19.0 does.                                    *)
(***************************************************************************)
EXTENDS Integers, Sequences, FiniteSets, TLC

\* ------------------------------------------------------------- constants
\* The window of handleRateLimit: filter(time => now - time < 1000).
Interval == 1000
\* parseInt(process.env.API_RATE_LIMIT) || 100
DefaultRateLimit == 100
\* parseInt(process.env.API_RETRY_ATTEMPTS) || 3
DefaultRetryAttempts == 3
\* Math.pow(2, config._retryCount) * 1000
BackoffUnit == 1000

\* ---------------------------------------------------------------- bounds
\* Callers that share one ApiClient.
MaxCallers == 2
\* Calls of handleRateLimit made directly on the limiter (SpecRL).
MaxCalls == 4
\* The clock is advanced step by step up to MaxTime; beyond it, it only
\* jumps to the next timer deadline.
MaxTime == 1500
\* Logical requests (calls of get) made one after another (Spec).
MaxRequests == 2
\* Descriptors in the argument of batchRequests (SpecBatch).
MaxBatch == 3
\* Chunks in the body of a downloaded response (SpecDownload).
MaxChunks == 2
\* The largest maxRetries given to rerunWithRetry (SpecRerun).
MaxRetriesArg == 3
\* Failed scenarios a cucumber report can hold (SpecRerun).
MaxFailed == 4

\* The steps by which the clock is advanced between events.
TickSteps == {250}

\* parseInt of an unset or non-numeric environment variable.
NaN == 0 - 1

VARIABLES
  clock,           \* Date.now()
  envRateLimit,    \* process.env.API_RATE_LIMIT as parseInt reads it
  envRetry,        \* process.env.API_RETRY_ATTEMPTS as parseInt reads it
  rateLimitDelay,  \* this.rateLimitDelay: the budget per interval
  retryAttempts,   \* this.retryAttempts
  rateLimitQueue,  \* this.rateLimitQueue
  nCallers,        \* callers that use the client
  rlpc,            \* per caller: "idle" or "waiting" inside handleRateLimit
  rlNow,           \* per caller: the local const now of handleRateLimit
  rlWake,          \* per caller: deadline of the setTimeout it awaits
  rlOrd,           \* per caller: arrival number of its pending call
  arrivals,        \* calls of handleRateLimit made so far
  admitLog,        \* the returns of handleRateLimit, in order
  pc,              \* position of the logical request in the pipeline
  config,          \* the axios request config of the logical request
  sends,           \* underlying sends made for the logical request
  resps,           \* what the transport answered to each send
  delays,          \* the backoff delays scheduled by retryRequest
  retryWake,       \* deadline of the backoff timer
  outcome,         \* what get returned or threw
  requests,        \* logical requests started so far
  admitBase,       \* admissions logged before the logical request began
  submits,         \* the stored credential at each this.client(...) call
  sentLog,         \* per send: the credential header and the body it carried
  cancelled,       \* the caller's cancellation signal (options.signal)
  stream,          \* the read stream of an upload: none, fresh or consumed
  auth,            \* client.defaults.headers.common['Authorization']
  op,              \* the wrapper operation in progress: none, login, batch
  loginToken,      \* response.token as the last login call read it
  batch,           \* the requests argument of batchRequests
  bi,              \* the position of the for loop of batchRequests
  bpc,             \* batchRequests: none, running, awaiting, returned
  results,         \* the results array of batchRequests
  errors,          \* the errors array of batchRequests
  total,           \* the total batchRequests returned
  logoutResult,    \* the promise of the last logout: none, resolved, rejected
  dpc,             \* downloadFile: none, awaiting, piping, settled
  chunks,          \* chunks in the body of the response being downloaded
  arrived,         \* chunks the response stream has handed to the writer
  flushed,         \* chunks the writer has flushed to the file
  src,             \* response.data: none, open, ended, failed
  writer,          \* the write stream: none, open, ending, finished, errored
  dresult,         \* the promise downloadFile returned
  rpc,             \* rerunWithRetry: none, check, running, returned, threw
  maxRetries,      \* the argument of rerunWithRetry
  attempt,         \* the local attempt of rerunWithRetry
  failedCount,     \* failed scenarios in reports/cucumber-report.json
  reports          \* failed scenarios in each report rerunWithRetry met

rlVars == <<envRateLimit, rateLimitDelay, rateLimitQueue, nCallers, rlpc,
            rlNow, rlWake, rlOrd, arrivals, admitLog>>
reqVars == <<pc, config, sends, resps, delays, retryWake, outcome, requests,
             admitBase, submits, sentLog, cancelled, stream>>
sessVars == <<auth, op, loginToken>>
batchVars == <<batch, bi, bpc, results, errors, total>>
rerunVars == <<rpc, maxRetries, attempt, failedCount, reports>>
wrapVars == <<logoutResult, dpc, chunks, arrived, flushed, src, writer,
              dresult>>
pipeVars == <<envRetry, retryAttempts, rerunVars, reqVars, sessVars, batchVars,
              wrapVars>>
vars == <<clock, rlVars, pipeVars>>

Callers == 1..MaxCallers

\* ------------------------------------------------------------ constructor
\* parseInt(x) || d : NaN and 0 are falsy.
ParseIntOr(x, d) == IF x = NaN \/ x = 0 THEN d ELSE x

\* ----------------------------------------------------------- rate limiter
\* this.rateLimitQueue.filter(time => now - time < 1000)
Evict(q, now) == SelectSeq(q, LAMBDA time : now - time < Interval)

WaitTimeEager(q, now) ==
  IF q # <<>> THEN Interval - (now - q[1]) ELSE 0

\* The condition of the if and the waitTime of handleRateLimit, on the
\* filtered queue.  An empty queue gives oldestRequest = undefined, so
\* waitTime = NaN and (waitTime > 0) is false.
WaitTime(q, now) ==
  IF Len(q) >= rateLimitDelay /\ q # <<>>
  THEN Interval - (now - q[1])
  ELSE 0

\* handleRateLimit returned to caller c: the request is dispatched.
Admitted(c, ord) == Append(admitLog, [caller |-> c, ord |-> ord, at |-> clock])

\* handleRateLimit up to its await, or to its end when it does not wait.
RLEnter(c) ==
  /\ rlpc[c] = "idle"
  /\ LET now == clock
         q == Evict(rateLimitQueue, now)
         waitTime == WaitTime(q, now)
     IN  /\ arrivals' = arrivals + 1
         /\ IF waitTime > 0
            THEN /\ rateLimitQueue' = q
                 /\ rlpc' = [rlpc EXCEPT ![c] = "waiting"]
                 /\ rlNow' = [rlNow EXCEPT ![c] = now]
                 /\ rlWake' = [rlWake EXCEPT ![c] = now + waitTime]
                 /\ rlOrd' = [rlOrd EXCEPT ![c] = arrivals + 1]
                 /\ UNCHANGED admitLog
            ELSE /\ rateLimitQueue' = Append(q, now)
                 /\ admitLog' = Admitted(c, arrivals + 1)
                 /\ UNCHANGED <<rlpc, rlNow, rlWake, rlOrd>>
  /\ UNCHANGED <<envRateLimit, rateLimitDelay, nCallers>>

\* The timer of handleRateLimit fires: push(now) with the now read on entry.
RLWake(c) ==
  /\ rlpc[c] = "waiting"
  /\ clock >= rlWake[c]
  /\ rateLimitQueue' = Append(rateLimitQueue, rlNow[c])
  /\ admitLog' = Admitted(c, rlOrd[c])
  /\ rlpc' = [rlpc EXCEPT ![c] = "idle"]
  /\ rlNow' = [rlNow EXCEPT ![c] = 0]
  /\ rlWake' = [rlWake EXCEPT ![c] = 0]
  /\ rlOrd' = [rlOrd EXCEPT ![c] = 0]
  /\ UNCHANGED <<envRateLimit, rateLimitDelay, nCallers, arrivals>>

\* getRequestCount(): return this.rateLimitQueue.length
GetRequestCount == Len(rateLimitQueue)

\* The pending timer deadlines.
Deadlines ==
  {rlWake[c] : c \in {x \in Callers : rlpc[x] = "waiting"}}
    \cup (IF pc = "backoff" THEN {retryWake} ELSE {})

\* Time passes, never beyond a pending deadline.
Tick ==
  /\ \E d \in TickSteps :
       /\ clock + d <= MaxTime
       /\ \A t \in Deadlines : clock + d <= t
       /\ clock' = clock + d
  /\ UNCHANGED <<rlVars, pipeVars>>

\* Nothing else happens until the earliest pending timer is due.
AwaitTimer ==
  /\ Deadlines # {}
  /\ \A t \in Deadlines : clock < t
  /\ clock' = CHOOSE t \in Deadlines : \A u \in Deadlines : t <= u
  /\ UNCHANGED <<rlVars, pipeVars>>

\* A caller invokes handleRateLimit, as the request interceptor does.
CallHandleRateLimit ==
  /\ arrivals < MaxCalls
  /\ \E c \in 1..nCallers : RLEnter(c)
  /\ UNCHANGED <<clock, pipeVars>>

TimerFires ==
  /\ \E c \in 1..nCallers : RLWake(c)
  /\ UNCHANGED <<clock, pipeVars>>

\* ---------------------------------------------------- transport (axios)
\* What one underlying send can yield: a 2xx response whose body does or does
\* not satisfy a schema, an HTTP error status (axios rejects with
\* "Request failed with status code N"), or a transport error with a Node or
\* axios error code.  timeoutMsg: error.message contains 'timeout' (axios'
\* "timeout of 30000ms exceeded", code ECONNABORTED).
ErrorStatuses == {400, 401, 404, 408, 429, 500, 502, 503, 504}
ErrorCodes == {"ECONNREFUSED", "ECONNRESET", "ENOTFOUND", "ETIMEDOUT",
               "ECONNABORTED", "ERR_CANCELED"}
OkResponse(valid) ==
  [type |-> "ok", status |-> 200, code |-> "", timeoutMsg |-> FALSE,
   valid |-> valid]
HttpError(s) ==
  [type |-> "http", status |-> s, code |-> "ERR_BAD_RESPONSE",
   timeoutMsg |-> FALSE, valid |-> FALSE]
TransportError(code) ==
  [type |-> "transport", status |-> 0, code |-> code,
   timeoutMsg |-> (code = "ECONNABORTED"), valid |-> FALSE]
Responses ==
  {OkResponse(v) : v \in BOOLEAN}
    \cup {HttpError(s) : s \in ErrorStatuses}
    \cup {TransportError(c) : c \in ErrorCodes}

\* The errors the client itself throws: they carry no response.
ClientError(type) ==
  [type |-> type, status |-> 0, code |-> "", timeoutMsg |-> FALSE,
   valid |-> FALSE]
\* new Error(`Max retry attempts (${this.retryAttempts}) exceeded`)
MaxRetryError == ClientError("maxRetry")
\* new Error(`Response validation failed: ...`)
ValidationError == ClientError("validation")
NoError == ClientError("none")

\* --------------------------------------------------------- retry pipeline
RetryableStatuses == {408, 429, 500, 502, 503, 504}
RetryableErrors == {"ECONNRESET", "ENOTFOUND", "ETIMEDOUT"}

ShouldRetryAnyFailure(error) == error.status >= 400 \/ error.code # ""

ShouldRetry(error) ==
  \/ error.status \in RetryableStatuses
  \/ error.code \in RetryableErrors
  \/ error.timeoutMsg

NoOutcome == [state |-> "none", originalError |-> NoError, status |-> 0]
Returned == [state |-> "returned", originalError |-> NoError, status |-> 0]
\* handleError: the wrapper get throws, with status = error.response?.status.
HandleError(error) ==
  [state |-> "threw", originalError |-> error, status |-> error.status]

\* How the handling of one response leaves the logical request.
Cont(pcv, cfg, delay, out) ==
  [pc |-> pcv, config |-> cfg, delay |-> delay, outcome |-> out]

\* Math.pow(2, config._retryCount) * 1000
Backoff(retryCount) == (2 ^ retryCount) * BackoffUnit

RetryRequest(cfg) ==
  LET c2 == [cfg EXCEPT !.retry = TRUE, !.retryCount = @ + 1]
  IN  IF c2.retryCount > retryAttempts
      THEN Cont("done", c2, 0, HandleError(MaxRetryError))
      ELSE Cont("backoff", c2, Backoff(c2.retryCount), NoOutcome)

\* The response interceptor's error handler, and the catch of get.
ResponseRejected(error, cfg) ==
  IF ShouldRetry(error) /\ ~cfg.retry
  THEN RetryRequest(cfg)
  ELSE Cont("done", cfg, 0, HandleError(error))

\* validateResponse throws iff a schema is given and the body violates it.
ValidationFails(response, schema) == schema /\ ~response.valid

ResponseFulfilledRetrying(response, cfg) ==
  IF ValidationFails(response, cfg.schema)
  THEN RetryRequest(cfg)
  ELSE Cont("done", cfg, 0, Returned)

\* The response interceptor's success handler, then the rest of get.
ResponseFulfilled(response, cfg) ==
  IF ValidationFails(response, cfg.schema)
  THEN Cont("done", cfg, 0, HandleError(ValidationError))
  ELSE Cont("done", cfg, 0, Returned)

\* ------------------------------------------------------------ credentials
\* The values of the Authorization header: none, or Bearer <token>.
Tokens == {"tokA", "tokB"}
AuthValues == {"none"} \cup Tokens

\* axios builds the headers of a request from the defaults and the config it
\* is given, a header of the config taking precedence over the default.
MergeHeaders(defaultsAuth, cfgAuth) ==
  IF cfgAuth # "none" THEN cfgAuth ELSE defaultsAuth

\* this.client.get/post(endpoint, ...): a new logical request with a fresh
\* config, its headers built at the call.  body is the read stream of an
\* upload ("fresh") or "none".
StartRequest(schema, body) ==
  /\ pc \in {"idle", "done"}
  /\ requests' = requests + 1
  /\ config' = [retry |-> FALSE, retryCount |-> 0, schema |-> schema,
                auth |-> MergeHeaders(auth, "none")]
  /\ sends' = 0
  /\ resps' = <<>>
  /\ delays' = <<>>
  /\ outcome' = NoOutcome
  /\ admitBase' = Len(admitLog)
  /\ submits' = <<auth>>
  /\ sentLog' = <<>>
  /\ cancelled' = FALSE
  /\ stream' = body
  /\ pc' = "intercept"
  /\ UNCHANGED <<clock, rlVars, envRetry, retryAttempts, rerunVars, retryWake,
                 auth, loginToken>>

\* get(endpoint, options).
Get ==
  /\ op = "none"
  /\ requests < MaxRequests
  /\ \E schema \in BOOLEAN : StartRequest(schema, "none")
  /\ UNCHANGED <<op, batchVars, wrapVars>>

\* The request interceptor: await this.handleRateLimit().
Intercept ==
  /\ pc = "intercept"
  /\ RLEnter(1)
  /\ pc' = "admitting"
  /\ UNCHANGED <<clock, envRetry, retryAttempts, rerunVars, config, sends,
                 resps, delays, retryWake, outcome, requests, admitBase,
                 submits, sentLog, cancelled, stream, sessVars, batchVars,
                 wrapVars>>

\* What the handling of a response, or of a refused dispatch, assigns.
ApplyCont(k) ==
  /\ pc' = k.pc
  /\ config' = k.config
  /\ outcome' = k.outcome
  /\ delays' = IF k.pc = "backoff" THEN Append(delays, k.delay) ELSE delays
  /\ retryWake' = IF k.pc = "backoff" THEN clock + k.delay ELSE retryWake

\* axios' CanceledError: dispatchRequest throws it for an aborted signal.
CanceledError ==
  [type |-> "transport", status |-> 0, code |-> "ERR_CANCELED",
   timeoutMsg |-> FALSE, valid |-> FALSE]

SentHeadersFromDefaults(cfg, defaultsAuth) == defaultsAuth

\* The adapter sends the headers of the config the interceptor returned; the
\* defaults are not read again at this point.
SentHeaders(cfg, defaultsAuth) == cfg.auth

\* handleRateLimit has returned: the adapter sends the request, reading the
\* body stream; with the signal aborted, axios rejects instead of sending.
Send ==
  /\ pc = "admitting"
  /\ rlpc[1] = "idle"
  /\ IF cancelled
     THEN /\ ApplyCont(ResponseRejected(CanceledError, config))
          /\ UNCHANGED <<sends, sentLog, stream>>
     ELSE /\ sends' = sends + 1
          /\ sentLog' = Append(sentLog, [auth |-> SentHeaders(config, auth),
                                             body |-> stream])
          /\ stream' = IF stream = "fresh" THEN "consumed" ELSE stream
          /\ pc' = "inflight"
          /\ UNCHANGED <<config, outcome, delays, retryWake>>
  /\ UNCHANGED <<clock, rlVars, envRetry, retryAttempts, rerunVars, resps,
                 requests, admitBase, submits, cancelled, sessVars, batchVars,
                 wrapVars>>

\* The send settles with one of the responses of S: the response
\* interceptors run, then get's own code.
RespondWith(S) ==
  /\ pc = "inflight"
  /\ \E r \in S :
       /\ resps' = Append(resps, r)
       /\ ApplyCont(IF r.type = "ok"
                    THEN ResponseFulfilled(r, config)
                    ELSE ResponseRejected(r, config))
  /\ UNCHANGED <<clock, rlVars, envRetry, retryAttempts, rerunVars, sends,
                 requests, admitBase, submits, sentLog, cancelled, stream,
                 sessVars, batchVars, wrapVars>>

Respond == RespondWith(Responses)

RetryTimerFiresRawResend ==
  /\ pc = "backoff"
  /\ clock >= retryWake
  /\ pc' = "admitting"
  /\ UNCHANGED <<clock, rlVars, envRetry, retryAttempts, rerunVars, config,
                 sends, resps, delays, retryWake, outcome, requests, admitBase,
                 submits, sentLog, cancelled, stream, sessVars, batchVars,
                 wrapVars>>

RetryTimerNeverResolves ==
  /\ pc = "backoff"
  /\ clock >= retryWake
  /\ UNCHANGED vars

\* The backoff timer of retryRequest fires: return this.client(config), which
\* builds the headers again from the defaults and the config of the failed
\* attempt, and runs the request interceptor again.
RetryTimerFires ==
  /\ pc = "backoff"
  /\ clock >= retryWake
  /\ pc' = "intercept"
  /\ config' = [config EXCEPT !.auth = MergeHeaders(auth, @)]
  /\ submits' = Append(submits, auth)
  /\ UNCHANGED <<clock, rlVars, envRetry, retryAttempts, rerunVars, sends,
                 resps, delays, retryWake, outcome, requests, admitBase,
                 sentLog, cancelled, stream, sessVars, batchVars, wrapVars>>

InitPipe(envs) ==
  /\ envRetry \in envs
  /\ retryAttempts = ParseIntOr(envRetry, DefaultRetryAttempts)
  /\ pc = "idle"
  /\ config = [retry |-> FALSE, retryCount |-> 0, schema |-> FALSE,
               auth |-> "none"]
  /\ sends = 0
  /\ resps = <<>>
  /\ delays = <<>>
  /\ retryWake = 0
  /\ outcome = NoOutcome
  /\ requests = 0
  /\ admitBase = 0
  /\ submits = <<>>
  /\ sentLog = <<>>
  /\ cancelled = FALSE
  /\ stream = "none"
  /\ op = "none"
  /\ loginToken = "none"
  /\ batch = <<>>
  /\ bi = 0
  /\ bpc = "none"
  /\ results = <<>>
  /\ errors = <<>>
  /\ total = 0
  /\ logoutResult = "none"
  /\ dpc = "none"
  /\ chunks = 0
  /\ arrived = 0
  /\ flushed = 0
  /\ src = "none"
  /\ writer = "none"
  /\ dresult = "none"
  /\ rpc = "none"
  /\ maxRetries = 0
  /\ attempt = 0
  /\ failedCount = 0
  /\ reports = <<>>

\* setupAuthentication(options.auth): the credential the client starts with.
InitAuth(values) == auth \in values

InitLimiter(envs, callers) ==
  /\ clock = 0
  /\ envRateLimit \in envs
  /\ rateLimitDelay = ParseIntOr(envRateLimit, DefaultRateLimit)
  /\ rateLimitQueue = <<>>
  /\ nCallers \in callers
  /\ rlpc = [c \in Callers |-> "idle"]
  /\ rlNow = [c \in Callers |-> 0]
  /\ rlWake = [c \in Callers |-> 0]
  /\ rlOrd = [c \in Callers |-> 0]
  /\ arrivals = 0
  /\ admitLog = <<>>

InitRL ==
  InitLimiter({NaN, 0, 1, 2}, Callers) /\ InitPipe({NaN}) /\ InitAuth({"none"})

NextRL == CallHandleRateLimit \/ TimerFires \/ Tick \/ AwaitTimer

SpecRL == InitRL /\ [][NextRL]_vars

\* One caller issuing logical requests one after another.
Init ==
  InitLimiter({NaN, 1}, {1}) /\ InitPipe({NaN, 0, 1, 2}) /\ InitAuth({"none"})

Next ==
  \/ Get
  \/ Intercept
  \/ TimerFires
  \/ Send
  \/ Respond
  \/ RetryTimerFires
  \/ Tick
  \/ AwaitTimer

Spec == Init /\ [][Next]_vars

\* ------------------------------------------------------ session operations
\* The responses the session, batch and liveness specifications draw from.
SmallResponses ==
  {OkResponse(TRUE), OkResponse(FALSE), HttpError(404), HttpError(503)}

RespondSmall == RespondWith(SmallResponses)

\* setAuthToken(token).
SetAuthToken ==
  /\ \E t \in Tokens : t # auth /\ auth' = t
  /\ UNCHANGED <<clock, rlVars, envRetry, retryAttempts, rerunVars, reqVars,
                 op, loginToken, batchVars, wrapVars>>

\* uploadFile(endpoint, filePath): a form around fs.createReadStream(filePath)
\* is posted; validateResponse is called without a schema.
UploadFile ==
  /\ op = "none"
  /\ requests < MaxRequests
  /\ StartRequest(FALSE, "fresh")
  /\ UNCHANGED <<op, batchVars, wrapVars>>

\* The caller aborts the signal it passed in the options while the request is
\* suspended in handleRateLimit or in the backoff of retryRequest.
Cancel ==
  /\ ~cancelled
  /\ pc = "backoff" \/ (pc = "admitting" /\ rlpc[1] = "waiting")
  /\ cancelled' = TRUE
  /\ UNCHANGED <<clock, rlVars, envRetry, retryAttempts, rerunVars, pc, config,
                 sends, resps, delays, retryWake, outcome, requests, admitBase,
                 submits, sentLog, stream, sessVars, batchVars, wrapVars>>

\* login(credentials), up to its await: this.post('/auth/login', credentials).
Login ==
  /\ op = "none"
  /\ requests < MaxRequests
  /\ StartRequest(FALSE, "none")
  /\ op' = "login"
  /\ UNCHANGED <<batchVars, wrapVars>>

LoginInstallAlways(out, token, current) ==
  IF out.state = "returned" THEN token ELSE "none"

\* The Authorization header login leaves: Bearer <response.token> when post
\* returned and response.token is truthy, the header it found otherwise.
LoginInstall(out, token, current) ==
  IF out.state = "returned" /\ token # "none" THEN token ELSE current

\* login after its await: the body post returned has a token or has none.
LoginSettle ==
  /\ op = "login"
  /\ pc = "done"
  /\ \E token \in (IF outcome.state = "returned" THEN AuthValues ELSE {"none"}) :
       /\ loginToken' = token
       /\ auth' = LoginInstall(outcome, token, auth)
  /\ op' = "none"
  /\ UNCHANGED <<clock, rlVars, envRetry, retryAttempts, rerunVars, reqVars,
                 batchVars, wrapVars>>

dlVars == <<dpc, chunks, arrived, flushed, src, writer, dresult>>

\* logout(), up to its await: this.post('/auth/logout').
Logout ==
  /\ op = "none"
  /\ requests < MaxRequests
  /\ StartRequest(FALSE, "none")
  /\ op' = "logout"
  /\ logoutResult' = "none"
  /\ UNCHANGED <<batchVars, dlVars>>

LogoutRemoveAlways(out, current) == "none"

\* The Authorization header logout leaves: deleted after post returned, the
\* header it found when post threw.
LogoutRemove(out, current) ==
  IF out.state = "returned" THEN "none" ELSE current

\* logout resumes after its await: delete the header and return, or log and
\* rethrow the error of post.
LogoutSettle ==
  /\ op = "logout"
  /\ pc = "done"
  /\ auth' = LogoutRemove(outcome, auth)
  /\ logoutResult' =
       (IF outcome.state = "returned" THEN "resolved" ELSE "rejected")
  /\ op' = "none"
  /\ UNCHANGED <<clock, rlVars, envRetry, retryAttempts, rerunVars, reqVars,
                 loginToken, batchVars, dlVars>>

\* One caller using the client: requests, uploads, logins, credential
\* updates and cancellations, under a budget of one request per interval.
InitSession ==
  InitLimiter({1}, {1}) /\ InitPipe({NaN}) /\ InitAuth({"none", "tokA"})

NextSession ==
  \/ Get
  \/ UploadFile
  \/ Login
  \/ LoginSettle
  \/ Logout
  \/ LogoutSettle
  \/ SetAuthToken
  \/ Cancel
  \/ Intercept
  \/ TimerFires
  \/ Send
  \/ RespondSmall
  \/ RetryTimerFires
  \/ Tick
  \/ AwaitTimer

SpecSession == InitSession /\ [][NextSession]_vars

\* ------------------------------------------------------------------ batch
\* A request descriptor of batchRequests: its method and whether its options
\* hold a response schema.  HEAD stands for a method the client has no
\* function for: this[request.method.toLowerCase()] is undefined.
KnownMethods == {"GET", "POST"}
Descriptors == [method : KnownMethods \cup {"HEAD"}, schema : BOOLEAN]
BatchInputs ==
  UNION {[1..n -> Descriptors] : n \in 0..MaxBatch}

\* this[method](request.endpoint, request.data, request.options): post takes
\* (endpoint, data, options); get takes (endpoint, options), so that a GET
\* item is called with request.data as its options.
EffectiveSchema(d) == IF d.method = "POST" THEN d.schema ELSE FALSE

\* batchRequests(requests), up to its loop.
BatchRequests ==
  /\ op = "none"
  /\ bpc = "none"
  /\ pc = "idle"
  /\ \E reqs \in BatchInputs : batch' = reqs
  /\ results' = <<>>
  /\ errors' = <<>>
  /\ bi' = 1
  /\ bpc' = "running"
  /\ op' = "batch"
  /\ UNCHANGED <<clock, rlVars, envRetry, retryAttempts, rerunVars, reqVars,
                 auth, loginToken, total, wrapVars>>

BatchCatchSwallow(errs, item, error) == errs

\* catch (error) { errors.push({ success: false, error: error.message }) }
\* item, the position of the descriptor, is kept for the properties only.
BatchCatch(errs, item, error) ==
  Append(errs, [success |-> FALSE, item |-> item, error |-> error.type])

AfterCatchBreak(i) == Len(batch) + 1

\* The loop goes on with the next descriptor after a caught error.
AfterCatch(i) == i + 1

\* The TypeError of calling a method the client does not have.
NotAFunction == ClientError("typeError")

\* One turn of the loop up to its await; a descriptor whose method is unknown
\* throws inside the try and is caught at once.
BatchItemStart ==
  /\ bpc = "running"
  /\ bi <= Len(batch)
  /\ IF batch[bi].method \in KnownMethods
     THEN /\ StartRequest(EffectiveSchema(batch[bi]), "none")
          /\ bpc' = "awaiting"
          /\ UNCHANGED <<bi, errors>>
     ELSE /\ errors' = BatchCatch(errors, bi, NotAFunction)
          /\ bi' = AfterCatch(bi)
          /\ UNCHANGED <<clock, rlVars, envRetry, retryAttempts, rerunVars,
                         reqVars, auth, loginToken, bpc>>
  /\ UNCHANGED <<op, batch, results, total, wrapVars>>

\* The awaited call settles: push to results, or catch and push to errors.
BatchItemSettle ==
  /\ bpc = "awaiting"
  /\ pc = "done"
  /\ IF outcome.state = "returned"
     THEN /\ results' = Append(results, [success |-> TRUE, item |-> bi])
          /\ bi' = bi + 1
          /\ UNCHANGED errors
     ELSE /\ errors' = BatchCatch(errors, bi, outcome.originalError)
          /\ bi' = AfterCatch(bi)
          /\ UNCHANGED results
  /\ bpc' = "running"
  /\ UNCHANGED <<clock, rlVars, envRetry, retryAttempts, rerunVars, reqVars,
                 sessVars, batch, total, wrapVars>>

\* return { results, errors, total: requests.length }
BatchReturn ==
  /\ bpc = "running"
  /\ bi > Len(batch)
  /\ total' = Len(batch)
  /\ bpc' = "returned"
  /\ op' = "none"
  /\ UNCHANGED <<clock, rlVars, envRetry, retryAttempts, rerunVars, reqVars,
                 auth, loginToken, batch, bi, results, errors, wrapVars>>

InitBatch ==
  InitLimiter({NaN}, {1}) /\ InitPipe({NaN}) /\ InitAuth({"none"})

NextBatch ==
  \/ BatchRequests
  \/ BatchItemStart
  \/ BatchItemSettle
  \/ BatchReturn
  \/ Intercept
  \/ Send
  \/ RespondSmall
  \/ RetryTimerFires
  \/ AwaitTimer

SpecBatch == InitBatch /\ [][NextBatch]_vars

\* --------------------------------------------------------------- download
\* downloadFile(endpoint, outputPath), up to its await:
\* this.client.get(endpoint, { ...options, responseType: 'stream' }).
DownloadFile ==
  /\ op = "none"
  /\ requests < MaxRequests
  /\ StartRequest(FALSE, "none")
  /\ op' = "download"
  /\ dpc' = "awaiting"
  /\ chunks' = 0
  /\ arrived' = 0
  /\ flushed' = 0
  /\ src' = "none"
  /\ writer' = "none"
  /\ dresult' = "pending"
  /\ UNCHANGED <<batchVars, logoutResult>>

\* The awaited get settles.  With a response: createWriteStream, pipe, and
\* the promise with its two listeners is returned.  With an error: the catch
\* throws handleError(error).
DownloadResponse ==
  /\ op = "download"
  /\ dpc = "awaiting"
  /\ pc = "done"
  /\ IF outcome.state = "returned"
     THEN /\ \E n \in 0..MaxChunks : chunks' = n
          /\ src' = "open"
          /\ writer' = "open"
          /\ dpc' = "piping"
          /\ UNCHANGED <<dresult, op>>
     ELSE /\ dresult' = "rejected"
          /\ dpc' = "settled"
          /\ op' = "none"
          /\ UNCHANGED <<chunks, src, writer>>
  /\ UNCHANGED <<clock, rlVars, envRetry, retryAttempts, rerunVars, reqVars,
                 auth, loginToken, batchVars, logoutResult, arrived, flushed>>

SettleOnEnd(w, s, current) ==
  IF current # "pending" THEN current
  ELSE IF w = "errored" THEN "rejected"
  ELSE IF s = "ended" THEN "resolved"
  ELSE "pending"

\* The two listeners of the returned promise: writer.on('finish', resolve)
\* and writer.on('error', reject).  Nothing listens to response.data.
Settle(w, s, current) ==
  IF current # "pending" THEN current
  ELSE IF w = "errored" THEN "rejected"
  ELSE IF w = "finished" THEN "resolved"
  ELSE "pending"

\* One event of the two streams while the body is piped, with the listeners
\* it triggers: a, f, s, w are the values the event leaves.
StreamEvent(a, f, s, w) ==
  /\ dpc = "piping"
  /\ arrived' = a
  /\ flushed' = f
  /\ src' = s
  /\ writer' = w
  /\ dresult' = Settle(w, s, dresult)
  /\ dpc' = IF dresult' # "pending" THEN "settled" ELSE dpc
  /\ op' = IF dresult' # "pending" THEN "none" ELSE op
  /\ UNCHANGED <<clock, rlVars, envRetry, retryAttempts, rerunVars, reqVars,
                 auth, loginToken, batchVars, logoutResult, chunks>>

\* response.data emits a chunk: pipe writes it to the writer.
ChunkArrives ==
  /\ src = "open"
  /\ writer = "open"
  /\ arrived < chunks
  /\ StreamEvent(arrived + 1, flushed, src, writer)

\* response.data emits end after its last chunk: pipe calls writer.end().
SourceEnds ==
  /\ src = "open"
  /\ writer = "open"
  /\ arrived = chunks
  /\ StreamEvent(arrived, flushed, "ended", "ending")

\* response.data fails or the connection is aborted before the last chunk:
\* pipe unpipes and leaves the writer open.
SourceFails ==
  /\ src = "open"
  /\ arrived < chunks
  /\ StreamEvent(arrived, flushed, "failed", writer)

\* The writer flushes one chunk to the file.
Flush ==
  /\ writer \in {"open", "ending"}
  /\ flushed < arrived
  /\ StreamEvent(arrived, flushed + 1, src, writer)

\* The writer, ended and with nothing left to flush, emits finish.
WriterFinish ==
  /\ writer = "ending"
  /\ flushed = arrived
  /\ StreamEvent(arrived, flushed, src, "finished")

\* The writer emits error: the file cannot be opened or written.
WriterError ==
  /\ writer \in {"open", "ending"}
  /\ StreamEvent(arrived, flushed, src, "errored")

\* One caller downloading files one after another.  The runtime runs every
\* continuation and timer that is due, the transport answers every send, the
\* response stream goes on delivering and the writer goes on flushing; that
\* a stream fails is possible and never required.
InitDownload ==
  InitLimiter({NaN}, {1}) /\ InitPipe({NaN}) /\ InitAuth({"none"})

NextDownload ==
  \/ DownloadFile
  \/ DownloadResponse
  \/ Intercept
  \/ Send
  \/ RespondSmall
  \/ RetryTimerFires
  \/ AwaitTimer
  \/ ChunkArrives
  \/ SourceEnds
  \/ SourceFails
  \/ Flush
  \/ WriterFinish
  \/ WriterError

SpecDownload ==
  /\ InitDownload
  /\ [][NextDownload]_vars
  /\ WF_vars(Intercept)
  /\ WF_vars(Send)
  /\ WF_vars(RespondSmall)
  /\ WF_vars(RetryTimerFires)
  /\ WF_vars(AwaitTimer)
  /\ WF_vars(DownloadResponse)
  /\ WF_vars(ChunkArrives)
  /\ WF_vars(SourceEnds)
  /\ WF_vars(Flush)
  /\ WF_vars(WriterFinish)

\* ---------------------------------------------------------------- ReRunner
\* rerunWithRetry(maxRetries), up to its loop: attempt = 1 and the failed
\* scenarios of the last report, of which the model keeps the number.
RerunWithRetry ==
  /\ rpc = "none"
  /\ \E m \in 0..MaxRetriesArg : maxRetries' = m
  /\ \E f \in 0..MaxFailed : failedCount' = f /\ reports' = <<f>>
  /\ attempt' = 1
  /\ rpc' = "check"
  /\ UNCHANGED <<clock, rlVars, envRetry, retryAttempts, reqVars, sessVars,
                 batchVars, wrapVars>>

\* while (failedScenarios.length > 0 && attempt <= maxRetries)
LoopTest ==
  /\ rpc = "check"
  /\ rpc' = IF failedCount > 0 /\ attempt <= maxRetries
            THEN "running" ELSE "returned"
  /\ UNCHANGED <<clock, rlVars, envRetry, retryAttempts, reqVars, sessVars,
                 batchVars, wrapVars, maxRetries, attempt, failedCount,
                 reports>>

\* execSync(command) of TestRunner.runTests: cucumber-js exits with a
\* non-zero status when a scenario failed, and execSync then throws.
ExecSync(failures) == IF failures > 0 THEN "threw" ELSE "ok"

\* The body of the loop: rerunFailedScenarios runs cucumber-js through
\* runTests, which writes a new report; both rethrow what execSync throws,
\* and so does rerunWithRetry.  Otherwise the report is read again and
\* attempt is incremented.
RerunFailedScenarios ==
  /\ rpc = "running"
  /\ \E f \in 0..MaxFailed :
       /\ failedCount' = f
       /\ reports' = Append(reports, f)
       /\ IF ExecSync(f) = "threw"
          THEN rpc' = "threw" /\ UNCHANGED attempt
          ELSE rpc' = "check" /\ attempt' = attempt + 1
  /\ UNCHANGED <<clock, rlVars, envRetry, retryAttempts, reqVars, sessVars,
                 batchVars, wrapVars, maxRetries>>

InitRerun ==
  InitLimiter({NaN}, {1}) /\ InitPipe({NaN}) /\ InitAuth({"none"})

NextRerun == RerunWithRetry \/ LoopTest \/ RerunFailedScenarios

SpecRerun == InitRerun /\ [][NextRerun]_vars

\* --------------------------------------------------------------- liveness
\* The pipeline under the scheduling the runtime gives it: a due timer fires,
\* a continuation that can run does run, and every send is answered (axios
\* gives up on its own after config.timeout).  The caller is free to make no
\* further call, so Get has no fairness.
InitLive ==
  InitLimiter({1, 2}, {1}) /\ InitPipe({NaN, 1, 2}) /\ InitAuth({"none"})

NextLive ==
  \/ Get
  \/ Intercept
  \/ TimerFires
  \/ Send
  \/ RespondSmall
  \/ RetryTimerFires
  \/ Tick
  \/ AwaitTimer

SpecLive ==
  /\ InitLive
  /\ [][NextLive]_vars
  /\ WF_vars(Intercept)
  /\ WF_vars(TimerFires)
  /\ WF_vars(Send)
  /\ WF_vars(RespondSmall)
  /\ WF_vars(RetryTimerFires)
  /\ WF_vars(AwaitTimer)

\* ================================================================= claims
\* The admission instants (returns of handleRateLimit) that fall in the
\* interval [t, t + 1000).
InWindow(t) ==
  {i \in DOMAIN admitLog : t <= admitLog[i].at /\ admitLog[i].at < t + Interval}

\* C1: sequential use (a single caller, each handleRateLimit call awaited
\* before the next): no interval of 1000 ms holds more than B admission
\* instants.
C1_SequentialWindow ==
  nCallers = 1 =>
    \A i \in DOMAIN admitLog :
      Cardinality(InWindow(admitLog[i].at)) <= rateLimitDelay

\* C2: concurrent use (several callers whose handleRateLimit calls overlap):
\* the number of callers admitted within any interval of 1000 ms is at most B.
C2_ConcurrentWindow ==
  nCallers > 1 =>
    \A i \in DOMAIN admitLog :
      Cardinality({admitLog[j].caller : j \in InWindow(admitLog[i].at)})
        <= rateLimitDelay

\* C3: admission is FIFO: a caller that called handleRateLimit later is never
\* admitted before a caller that called earlier.
C3_Fifo ==
  /\ \A i, j \in DOMAIN admitLog :
       i < j => admitLog[i].ord < admitLog[j].ord
  /\ \A c \in Callers :
       rlpc[c] = "waiting" =>
         \A i \in DOMAIN admitLog : admitLog[i].ord < rlOrd[c]

\* C4: under a configured budget of zero no request is admitted (the call is
\* rejected with a configuration error).
C4_ZeroBudgetRejected ==
  envRateLimit = 0 => admitLog = <<>>

\* The responses so far are all failures with a retryable status.
AllRetryableStatus ==
  \A i \in DOMAIN resps :
    resps[i].type = "http" /\ resps[i].status \in RetryableStatuses

\* C5: a request whose every send fails with a retryable status ends after
\* exactly retryAttempts + 1 sends, with the retry-exhausted error.
C5_ExhaustedAfterMaxPlusOne ==
  (pc = "done" /\ AllRetryableStatus) =>
    /\ sends = retryAttempts + 1
    /\ outcome.state = "threw"
    /\ outcome.originalError = MaxRetryError

\* C6: a request whose first K sends fail with a retryable status and whose
\* next send succeeds, K < retryAttempts, returns success after K + 1 sends:
\* it does not end while fewer than retryAttempts sends have failed and none
\* has succeeded, and a success after K such failures is returned.
C6_SuccessAfterKFailures ==
  pc = "done" =>
    /\ AllRetryableStatus => Len(resps) >= retryAttempts
    /\ \A k \in 0..(retryAttempts - 1) :
         ( /\ Len(resps) = k + 1
           /\ \A i \in 1..k :
                resps[i].type = "http" /\ resps[i].status \in RetryableStatuses
           /\ resps[k + 1].type = "ok"
           /\ ~ValidationFails(resps[k + 1], config.schema) )
         => (outcome.state = "returned" /\ sends = k + 1)

\* The statuses the claim names as not retryable.
NonRetryableStatuses == {400, 401, 404}

\* C7: a request that fails with a non-retryable status is sent exactly once,
\* schedules no backoff delay, and throws an error carrying that status.
C7_NonRetryableOnce ==
  (pc # "inflight" /\ resps # <<>> /\ resps[1].type = "http"
     /\ resps[1].status \in NonRetryableStatuses) =>
    /\ pc = "done"
    /\ sends = 1
    /\ delays = <<>>
    /\ outcome.state = "threw"
    /\ outcome.status = resps[1].status

C7_Witness ==
  /\ pc = "done"
  /\ sends = 1
  /\ resps = <<HttpError(404)>>
  /\ outcome.status = 404

\* The transport error kinds of the claim: a refused or reset connection and
\* a failed name lookup are connection failures, ETIMEDOUT and axios' timeout
\* (ECONNABORTED) are timeouts.
ConnectionFailedCodes == {"ECONNREFUSED", "ECONNRESET", "ENOTFOUND"}
TimeoutCodes == {"ETIMEDOUT", "ECONNABORTED"}

\* The failed first send was handed to retryRequest, which marks the config.
Retried == config.retry

\* C8: a failed first send is treated as retryable iff its status is one of
\* 408, 429, 500, 502, 503, 504 or it is a transport error of kind
\* connection-failed or timeout.
C8_Classification ==
  (pc # "inflight" /\ resps # <<>> /\ resps[1].type # "ok") =>
    (Retried <=>
       \/ resps[1].status \in {408, 429, 500, 502, 503, 504}
       \/ resps[1].code \in ConnectionFailedCodes \cup TimeoutCodes)

\* C9: the delay before the retry that follows failed attempt n, counted from
\* 0, is 1000 * 2^n ms, and the delays of one logical request never decrease.
C9_BackoffSchedule ==
  /\ \A i \in DOMAIN delays : delays[i] = 1000 * (2 ^ (i - 1))
  /\ \A i, j \in DOMAIN delays : i <= j => delays[i] <= delays[j]

\* C10: a response that arrives successfully but violates the schema of the
\* call gives the caller the validation failure at once: the send that
\* brought it is the last one, and no backoff delay is scheduled for it.
C10_ValidationNotRetried ==
  (pc # "inflight" /\ resps # <<>> /\ resps[Len(resps)].type = "ok"
     /\ ValidationFails(resps[Len(resps)], config.schema)) =>
    /\ pc = "done"
    /\ outcome = HandleError(ValidationError)
    /\ sends = Len(resps)
    /\ Len(delays) = Len(resps) - 1
    /\ (Len(resps) = 1 => (sends = 1 /\ delays = <<>>))

C10_Witness ==
  /\ pc = "done"
  /\ config.schema
  /\ resps = <<OkResponse(FALSE)>>
  /\ sends = 1
  /\ outcome.originalError = ValidationError

\* The admissions logged for the logical request in progress.
AdmissionsOfRequest == Len(admitLog) - admitBase

\* C11: every underlying send, retries included, follows an admission of its
\* own: a logical request never has more sends than passes of
\* handleRateLimit, and the send in flight is the one last admitted.
C11_SendAfterAdmission ==
  /\ sends <= AdmissionsOfRequest
  /\ pc = "inflight" => sends = AdmissionsOfRequest

C11_Witness ==
  /\ pc = "inflight"
  /\ config.retry
  /\ sends = 2
  /\ AdmissionsOfRequest = 2

\* C12: a retried send carries the credentials stored when the retry was
\* made, not those captured for the first attempt.
C12_RetryCarriesCurrentCredentials ==
  \A i \in DOMAIN sentLog : i > 1 => sentLog[i].auth = submits[i]

\* C16: a request is first sent with the credential stored when it was
\* submitted: the old one when the credential is replaced while the request
\* waits for rate-limit admission, the new one when it is submitted after
\* the replacement.
C16_SentWithCredentialAtSubmission ==
  sentLog # <<>> => sentLog[1].auth = submits[1]

C16_Witness ==
  /\ pc = "inflight"
  /\ requests = 2
  /\ Len(admitLog) = 2
  /\ admitLog[2].at = Interval
  /\ Len(sentLog) = 1
  /\ sentLog[1].auth = "tokA"
  /\ auth = "tokB"

\* C17: the step on which login resumes after its call replaces the stored
\* Authorization credential by the token of the response when the call
\* succeeded and the response holds a token, and leaves it as it was when the
\* call failed or the response holds no token.
C17_LoginInstallsToken ==
  [][ (op = "login" /\ op' = "none") =>
        auth' = (IF outcome.state = "returned" /\ loginToken' # "none"
                 THEN loginToken' ELSE auth) ]_vars

C17_Witness ==
  /\ op = "none"
  /\ pc = "done"
  /\ outcome.state = "returned"
  /\ loginToken = "tokB"
  /\ auth = "tokB"
  /\ submits[1] = "tokA"

\* C19: once the caller has cancelled a request suspended in the rate limiter
\* or in a retry backoff, the wait is over and the caller has the Cancelled
\* outcome.
C19_CancelAbortsWait ==
  cancelled =>
    /\ pc = "done"
    /\ outcome.state = "threw"
    /\ outcome.originalError = CanceledError

\* C20: no send of an upload takes its file body from a stream that an
\* earlier send has consumed.
C20_UploadRetryRereadsFile ==
  \A i \in DOMAIN sentLog : sentLog[i].body # "consumed"

\* The outcomes batchRequests returns: the successes, then the failures.
Reported == results \o errors

\* C13: the i-th reported outcome of batchRequests belongs to the i-th
\* descriptor, for every input and every set of failing positions.
C13_OutcomesInInputOrder ==
  bpc = "returned" =>
    \A i \in DOMAIN batch : i <= Len(Reported) /\ Reported[i].item = i

\* C14: batchRequests reports as many outcomes, successes plus failures, as
\* it was given descriptors, and its total is that number.
C14_OutcomeCount ==
  bpc = "returned" =>
    /\ Len(results) + Len(errors) = Len(batch)
    /\ total = Len(batch)

C14_Witness ==
  /\ bpc = "returned"
  /\ Len(batch) = 3
  /\ Len(results) = 2
  /\ Len(errors) = 1

\* C15: a failing item does not end the batch: batchRequests returns, and
\* every descriptor, those after a failed one included, has been executed and
\* has its one outcome.
C15_FailureDoesNotAbort ==
  /\ bpc = "returned" =>
       \A i \in DOMAIN batch :
         Cardinality({j \in DOMAIN Reported : Reported[j].item = i}) = 1
  /\ (bpc = "running" /\ bi <= Len(batch)) => bi = Len(Reported) + 1

C15_Witness ==
  /\ bpc = "returned"
  /\ Len(batch) = 3
  /\ errors # <<>>
  /\ errors[1].item = 1
  /\ errors[1].error = "http"
  /\ Len(results) = 2

\* A call of get is under way: made and not yet settled.
Pending == pc \notin {"idle", "done"}

\* C18: every call that is under way eventually settles, returning or
\* throwing, and once it has settled no further send is made for it.
C18_EventuallyTerminal ==
  /\ Pending ~> (pc = "done" /\ outcome.state \in {"returned", "threw"})
  /\ [][(pc = "done" /\ requests' = requests) =>
          (pc' = "done" /\ sends' = sends /\ outcome' = outcome)]_vars

C18_Witness ==
  /\ pc = "done"
  /\ outcome.state = "threw"
  /\ sends = 2
  /\ \A i \in DOMAIN resps : resps[i] = HttpError(503)
  /\ requests = 2

\* The window as an admission check made now would see it: the queue after
\* the eviction step.
WindowNow == Evict(rateLimitQueue, clock)

\* Caller c resumes from the wait of handleRateLimit on this step.
Resumes(c) == rlpc[c] = "waiting" /\ rlpc'[c] = "idle"

\* C22: a caller whose wait ends is admitted only when eviction and budget
\* check, run again at that moment, find fewer than B entries in the window.
C22_RecheckAfterWait ==
  [][\A c \in Callers : Resumes(c) => Len(WindowNow) < rateLimitDelay]_vars

\* C23: at every admission check, the window holds at most B timestamps
\* immediately after the eviction step.
C23_WindowAtMostBudget ==
  [][arrivals' # arrivals => Len(WindowNow) <= rateLimitDelay]_vars

\* C25: a caller is suspended only when the window, after eviction, holds B
\* timestamps or more, and none of the first B calls made on a client is
\* ever suspended.
C25_NoUnnecessaryThrottling ==
  /\ [](\A c \in Callers : rlpc[c] = "waiting" => rlOrd[c] > rateLimitDelay)
  /\ [][\A c \in Callers :
          (rlpc[c] = "idle" /\ rlpc'[c] = "waiting") =>
            Len(WindowNow) >= rateLimitDelay]_vars

C25_Witness ==
  /\ rateLimitDelay = 2
  /\ Len(admitLog) = 2
  /\ admitLog[1].at = 0
  /\ admitLog[2].at = 0
  /\ admitLog[1].caller # admitLog[2].caller
  /\ \E c \in Callers : rlpc[c] = "waiting" /\ rlOrd[c] = 3

\* The requests admitted during the trailing interval.
AdmittedInWindow ==
  {i \in DOMAIN admitLog : clock - admitLog[i].at < Interval}

\* C28: getRequestCount() is the number of requests admitted during the
\* trailing interval, at any time.
C28_RequestCountIsWindow ==
  GetRequestCount = Cardinality(AdmittedInWindow)

\* The retry maximum as configured: API_RETRY_ATTEMPTS, or the default when
\* the variable is unset.
ConfiguredRetryMax ==
  IF envRetry = NaN THEN DefaultRetryAttempts ELSE envRetry

\* C24: the retry counter of a logical request starts at 0, goes up by one
\* at each retry and at no other step, and the sends made for the request
\* never exceed the configured retry maximum plus one.
C24_RetryCounterBounded ==
  /\ [](sends <= ConfiguredRetryMax + 1)
  /\ [](pc = "idle" => config.retryCount = 0)
  /\ [][requests' # requests => config'.retryCount = 0]_vars
  /\ [][requests' = requests =>
          config'.retryCount =
            (IF pc = "inflight" /\ pc' = "backoff"
             THEN config.retryCount + 1
             ELSE config.retryCount)]_vars

\* C27: the step on which logout resumes after its call removes the stored
\* Authorization credential when the call succeeded; when the call failed it
\* leaves the credential as it was and logout rejects with the error of the
\* call, so that a later request is submitted with that credential.
C27_LogoutKeepsCredentialOnFailure ==
  /\ [][(op = "logout" /\ op' = "none") =>
          IF outcome.state = "returned"
          THEN auth' = "none" /\ logoutResult' = "resolved"
          ELSE auth' = auth /\ logoutResult' = "rejected"
                 /\ outcome' = outcome]_vars
  /\ [][(logoutResult = "rejected" /\ requests' # requests) =>
          config'.auth = auth]_vars

C27_Witness ==
  /\ logoutResult = "rejected"
  /\ auth = "tokA"
  /\ requests = 2
  /\ pc = "inflight"
  /\ sentLog # <<>>
  /\ sentLog[1].auth = "tokA"

\* C26: a batch item is called with its own options: the request made for it
\* carries the schema of the item's options, and a response that violates
\* that schema makes the item fail with a validation error.
C26_BatchItemAsDirectCall ==
  bpc = "awaiting" =>
    /\ config.schema = batch[bi].schema
    /\ (pc = "done" /\ batch[bi].schema /\ resps # <<>>
          /\ resps[Len(resps)] = OkResponse(FALSE))
         => (outcome.state = "threw"
               /\ outcome.originalError = ValidationError)

\* C21: the promise of downloadFile is resolved only after the writer has
\* emitted finish, with every chunk of the response flushed to the file.
C21_ResolvesAfterFinish ==
  dresult = "resolved" =>
    /\ writer = "finished"
    /\ src = "ended"
    /\ arrived = chunks
    /\ flushed = chunks

C21_Witness ==
  /\ dresult = "resolved"
  /\ chunks = 2
  /\ flushed = 2
  /\ requests = 2

\* C29: once downloadFile has the response stream, its promise is eventually
\* resolved or rejected, also when the response stream fails or is aborted
\* before its last chunk.
C29_DownloadEventuallySettles ==
  (dpc = "piping") ~> (dresult \in {"resolved", "rejected"})

\* The attempts rerunWithRetry has made: one report is met on entry, one
\* more after each attempt.
AttemptsMade == Len(reports) - 1

\* C30: rerunWithRetry never makes more than maxRetries attempts, makes an
\* attempt only while failed scenarios remain, and does not stop while
\* failed scenarios remain and fewer than maxRetries attempts were made.
C30_RerunsWhileFailuresRemain ==
  /\ rpc # "none" => AttemptsMade <= maxRetries
  /\ rpc = "running" => failedCount > 0
  /\ rpc \in {"returned", "threw"} =>
       (failedCount = 0 \/ AttemptsMade = maxRetries)

====
